---- MODULE Spec2Model ----
(***************************************************************************)
(* Model of examples/manual_claim_jit.rs: the manual-claim JIT hold        *)
(* controller.  Two threads of control: main (configuration, node start,   *)
(* invoice request, event polling loop) and the shutdown listener thread   *)
(* (blocked on stdin, then fail_for_hash, stop, process::exit).  The       *)
(* Lightning node is an external collaborator: each of its calls returns   *)
(* Ok or Err nondeterministically and is recorded in the call log.         *)
(***************************************************************************)
EXTENDS Integers, Sequences, FiniteSets, TLC

\* ---------------------------------------------------------------- bounds
\* Number of next_event() polls a run of the model performs.
MaxPolls == 2
\* Largest value a modelled numeric text denotes; it is below u32::MAX, so
\* parsing INVOICE_EXPIRY_SECS as u32 never overflows on modelled inputs.
MaxTextValue == 99999

\* ------------------------------------------------------ program constants
amount_msat == 25000000
DefaultExpirySecs == 3600
CltvRegtest == 10
CltvTestnet == 18
CltvBitcoin == 80
U16Max == 65535

\* ------------------------------------------------------------ text values
\* A string is a tuple of one-character strings; Absent marks an unset
\* environment variable (env::var returning Err).
Absent == <<"<unset>">>

UpperChars == <<"A","B","C","D","E","F","G","I","L","N","O","R","S","T","U","V","W">>
LowerChars == <<"a","b","c","d","e","f","g","i","l","n","o","r","s","t","u","v","w">>

\* char::to_lowercase on the alphabet of the modelled inputs
LowerChar(c) ==
    IF \E i \in DOMAIN UpperChars : UpperChars[i] = c
    THEN LowerChars[CHOOSE i \in DOMAIN UpperChars : UpperChars[i] = c]
    ELSE c

\* str::to_lowercase
to_lowercase(s) == [i \in DOMAIN s |-> LowerChar(s[i])]

Digits == <<"0","1","2","3","4","5","6","7","8","9">>
IsDigit(c) == \E i \in DOMAIN Digits : Digits[i] = c
DigitVal(c) == (CHOOSE i \in DOMAIN Digits : Digits[i] = c) - 1

\* Decimal value of a digit string, or -1 when a character is no digit or
\* the value exceeds max (the integer type's MAX).
RECURSIVE DecimalValue(_, _, _)
DecimalValue(s, acc, max) ==
    IF s = <<>> THEN acc
    ELSE IF ~IsDigit(Head(s)) THEN -1
    ELSE IF acc * 10 + DigitVal(Head(s)) > max THEN -1
    ELSE DecimalValue(Tail(s), acc * 10 + DigitVal(Head(s)), max)

\* <unsigned>::from_str: optional leading "+", at least one digit, no
\* overflow.  Result -1 stands for Err.
ParseUnsigned(s, max) ==
    LET body == IF s /= <<>> /\ Head(s) = "+" THEN Tail(s) ELSE s
    IN  IF body = <<>> THEN -1 ELSE DecimalValue(body, 0, max)

\* env::var(..).ok().and_then(|s| s.parse().ok()).unwrap_or(default)
EnvParseOr(v, max, default) ==
    IF v = Absent THEN default
    ELSE IF ParseUnsigned(v, max) = -1 THEN default
    ELSE ParseUnsigned(v, max)

\* ------------------------------------------------------ environment inputs
ValidPubkey == <<"0","2","a","b">>
ValidAddress == <<"1",".","2",":","9">>
PubkeyInputs == {Absent, ValidPubkey, <<"z","z">>}
AddressInputs == {Absent, ValidAddress, <<"l","s","p">>}
NetworkInputs ==
    {Absent, <<"b","i","t","c","o","i","n">>, <<"T","e","s","t","n","e","t">>,
     <<"R","E","G","T","E","S","T">>, <<"s","i","g","n","e","t">>, <<"f","o","o">>}
LogLevelInputs == {Absent, <<"I","N","F","O">>, <<"l","o","u","d">>}
CltvInputs == {Absent, <<"1","4","4">>, <<"7","0","0","0","0">>}
ExpiryInputs == {Absent, <<"+","6","0","0">>}

\* PublicKey::from_str and SocketAddress::from_str succeed on well-formed text
PublicKeyFromStr(s) == s = ValidPubkey
AddressParse(s) == s = ValidAddress

\* ------------------------------------------------------- config parsing
NetBitcoin == <<"b","i","t","c","o","i","n">>
NetTestnet == <<"t","e","s","t","n","e","t">>
NetRegtest == <<"r","e","g","t","e","s","t">>
NetSignet == <<"s","i","g","n","e","t">>

\* NETWORK unset falls back to the text "bitcoin"
NetworkStr(v) == IF v = Absent THEN NetBitcoin ELSE v

ParseNetwork_DefaultRegtest(str) ==
    LET l == to_lowercase(str)
    IN  CASE l = NetBitcoin -> "Bitcoin"
          [] l = NetTestnet -> "Testnet"
          [] l = NetRegtest -> "Regtest"
          [] l = NetSignet -> "Signet"
          [] OTHER -> "Regtest"

\* match network_str.to_lowercase().as_str()
ParseNetwork(str) ==
    LET l == to_lowercase(str)
    IN  CASE l = NetBitcoin -> "Bitcoin"
          [] l = NetTestnet -> "Testnet"
          [] l = NetRegtest -> "Regtest"
          [] l = NetSignet -> "Signet"
          [] OTHER -> "Bitcoin"

KnownNetwork(str) ==
    to_lowercase(str) \in {NetBitcoin, NetTestnet, NetRegtest, NetSignet}

\* LOG_LEVEL unset falls back to the text "Debug"
LogLevelStr(v) == IF v = Absent THEN <<"D","e","b","u","g">> ELSE v

\* match log_level_str.to_lowercase().as_str()
ParseLogLevel(str) ==
    LET l == to_lowercase(str)
    IN  CASE l = <<"t","r","a","c","e">> -> "Trace"
          [] l = <<"d","e","b","u","g">> -> "Debug"
          [] l = <<"i","n","f","o">> -> "Info"
          [] l = <<"w","a","r","n">> -> "Warn"
          [] l = <<"e","r","r","o","r">> -> "Error"
          [] OTHER -> "Debug"

KnownLogLevel(str) ==
    to_lowercase(str) \in {<<"t","r","a","c","e">>, <<"d","e","b","u","g">>,
                           <<"i","n","f","o">>, <<"w","a","r","n">>,
                           <<"e","r","r","o","r">>}

\* let default_cltv_delta = match network
default_cltv_delta(net) ==
    CASE net = "Regtest" -> CltvRegtest
      [] net \in {"Testnet", "Signet"} -> CltvTestnet
      [] net = "Bitcoin" -> CltvBitcoin
      [] OTHER -> CltvBitcoin

\* ------------------------------------------------------------------ state
Hashes == {"h1", "h2"}
NoHash == "none"
NoEvent == [kind |-> "None", payment_hash |-> NoHash]
Events ==
    [kind : {"PaymentClaimable"}, payment_hash : Hashes]
    \cup [kind : {"ChannelPending", "ChannelReady", "Other"}, payment_hash : {NoHash}]

VARIABLES
    env,            \* the process environment
    mainPc,         \* position of the main thread
    proc,           \* "running", "panicked" (main thread panic) or "exited"
    stdin,          \* a line (or EOF) is available on standard input
    network,        \* Network chosen at lines 29-38
    log_level,      \* LogLevel chosen at lines 44-54
    expiry_secs,
    min_final_cltv_expiry_delta,
    payment_hash,   \* hash returned by the invoice request
    invoice,        \* invoice returned by the invoice request
    event,          \* the event the loop iteration holds
    polls,          \* next_event() calls made
    drained,        \* polls that returned Some(event)
    acked,          \* event_handled() calls made
    calls,          \* node commands issued, in order, with their results
    payState,       \* per-payment state the controller narrates
    sdPc,           \* position of the shutdown listener thread
    stateAtSignal   \* payState when read_line returned

vars == <<env, mainPc, proc, stdin, network, log_level, expiry_secs,
          min_final_cltv_expiry_delta, payment_hash, invoice, event, polls,
          drained, acked, calls, payState, sdPc, stateAtSignal>>

cfgVars == <<network, log_level, expiry_secs, min_final_cltv_expiry_delta>>
loopVars == <<event, polls, drained, acked>>
invVars == <<payment_hash, invoice>>
sdVars == <<sdPc, stateAtSignal>>

Results == {"Ok", "Err"}

Ops(op) == SelectSeq(calls, LAMBDA c : c.op = op)
Issued(op) == Len(Ops(op))

Init ==
    /\ env \in [LSP_PUBKEY : PubkeyInputs, LSP_ADDRESS : AddressInputs,
                NETWORK : NetworkInputs, LOG_LEVEL : LogLevelInputs,
                INVOICE_EXPIRY_SECS : ExpiryInputs,
                MIN_FINAL_CLTV_EXPIRY_DELTA : CltvInputs]
    /\ mainPc = "read_env"
    /\ proc = "running"
    /\ stdin = FALSE
    /\ network = "unset"
    /\ log_level = "unset"
    /\ expiry_secs = 0
    /\ min_final_cltv_expiry_delta = 0
    /\ payment_hash = NoHash
    /\ invoice = <<>>
    /\ event = NoEvent
    /\ polls = 0
    /\ drained = 0
    /\ acked = 0
    /\ calls = <<>>
    /\ payState = "Created"
    /\ sdPc = "unspawned"
    /\ stateAtSignal = "none"

\* A panic of the main thread (expect on Err / None) ends the process.
Panic ==
    /\ proc' = "panicked"
    /\ UNCHANGED <<env, mainPc, stdin, cfgVars, invVars, loopVars, calls,
                   payState, sdVars>>

Goto(pc) ==
    /\ mainPc' = pc
    /\ UNCHANGED <<env, proc, stdin>>

\* --------------------------------------------------------- operator input
\* The operator presses Enter (or stdin closes); possible at any time.
OperatorEnter ==
    /\ proc = "running"
    /\ ~stdin
    /\ stdin' = TRUE
    /\ UNCHANGED <<env, mainPc, proc, cfgVars, invVars, loopVars, calls,
                   payState, sdVars>>

\* ------------------------------------------------------------ main thread
\* env::var("LSP_PUBKEY").expect(..); env::var("LSP_ADDRESS").expect(..)
ReadEnv ==
    /\ proc = "running" /\ mainPc = "read_env"
    /\ IF env.LSP_PUBKEY = Absent \/ env.LSP_ADDRESS = Absent
       THEN Panic
       ELSE /\ Goto("parse_cfg")
            /\ UNCHANGED <<cfgVars, invVars, loopVars, calls, payState, sdVars>>

\* NETWORK and LOG_LEVEL: unknown text falls back with a warning
ParseConfig ==
    /\ proc = "running" /\ mainPc = "parse_cfg"
    /\ network' = ParseNetwork(NetworkStr(env.NETWORK))
    /\ log_level' = ParseLogLevel(LogLevelStr(env.LOG_LEVEL))
    /\ Goto("parse_pubkey")
    /\ UNCHANGED <<expiry_secs, min_final_cltv_expiry_delta, invVars, loopVars,
                   calls, payState, sdVars>>

\* PublicKey::from_str(&lsp_pubkey_str).expect("Invalid LSP_PUBKEY format")
ParsePubkey ==
    /\ proc = "running" /\ mainPc = "parse_pubkey"
    /\ IF ~PublicKeyFromStr(env.LSP_PUBKEY)
       THEN Panic
       ELSE /\ Goto("configure")
            /\ UNCHANGED <<cfgVars, invVars, loopVars, calls, payState, sdVars>>

ConfigureBuilder_AddressUnchecked ==
    /\ proc = "running" /\ mainPc = "configure"
    /\ Goto("build")
    /\ UNCHANGED <<cfgVars, invVars, loopVars, calls, payState, sdVars>>

\* Config and Builder set-up; lsp_address.parse().expect("Invalid LSP_ADDRESS format")
ConfigureBuilder ==
    /\ proc = "running" /\ mainPc = "configure"
    /\ IF ~AddressParse(env.LSP_ADDRESS)
       THEN Panic
       ELSE /\ Goto("build")
            /\ UNCHANGED <<cfgVars, invVars, loopVars, calls, payState, sdVars>>

\* builder.build().expect("Failed to build node")
BuildNode ==
    /\ proc = "running" /\ mainPc = "build"
    /\ \E res \in Results :
        IF res = "Err"
        THEN Panic
        ELSE /\ Goto("start")
             /\ UNCHANGED <<cfgVars, invVars, loopVars, calls, payState, sdVars>>

StartNode_SpawnsListener ==
    /\ proc = "running" /\ mainPc = "start"
    /\ calls' = Append(calls, [op |-> "start"])
    /\ sdPc' = "read_line"
    /\ Goto("params")
    /\ UNCHANGED <<cfgVars, invVars, loopVars, payState, stateAtSignal>>

\* if let Err(e) = node.start() { warn and continue }: Ok and Err both go on
\* to the same statement and the result is not kept
StartNode ==
    /\ proc = "running" /\ mainPc = "start"
    /\ calls' = Append(calls, [op |-> "start"])
    /\ Goto("params")
    /\ UNCHANGED <<cfgVars, invVars, loopVars, payState, sdVars>>

\* expiry_secs and min_final_cltv_expiry_delta from the environment
InvoiceParams ==
    /\ proc = "running" /\ mainPc = "params"
    /\ expiry_secs' = EnvParseOr(env.INVOICE_EXPIRY_SECS, MaxTextValue, DefaultExpirySecs)
    /\ min_final_cltv_expiry_delta' =
           EnvParseOr(env.MIN_FINAL_CLTV_EXPIRY_DELTA, U16Max,
                      default_cltv_delta(network))
    /\ Goto("invoice")
    /\ UNCHANGED <<network, log_level, invVars, loopVars, calls, payState, sdVars>>

RequestInvoice_Retry ==
    /\ proc = "running" /\ mainPc = "invoice"
    /\ Issued("invoice") < 2
    /\ \E res \in Results, h \in Hashes :
        /\ calls' = Append(calls, [op |-> "invoice", res |-> res,
                                   amount |-> amount_msat,
                                   expiry |-> expiry_secs,
                                   cltv |-> min_final_cltv_expiry_delta,
                                   hash |-> IF res = "Ok" THEN h ELSE NoHash])
        /\ IF res = "Err"
           THEN /\ Goto("invoice")
                /\ UNCHANGED <<cfgVars, invVars, loopVars, payState, sdVars>>
           ELSE /\ payment_hash' = h
                /\ invoice' = <<"lnbc", h>>
                /\ payState' = "AwaitingClaimable"
                /\ Goto("spawn")
                /\ UNCHANGED <<cfgVars, loopVars, sdVars>>

\* node.bolt11_payment().receive_via_jit_channel_for_hash(..).expect(..)
RequestInvoice ==
    /\ proc = "running" /\ mainPc = "invoice"
    /\ \E res \in Results, h \in Hashes :
        /\ calls' = Append(calls, [op |-> "invoice", res |-> res,
                                   amount |-> amount_msat,
                                   expiry |-> expiry_secs,
                                   cltv |-> min_final_cltv_expiry_delta,
                                   hash |-> IF res = "Ok" THEN h ELSE NoHash])
        /\ IF res = "Err"
           THEN /\ proc' = "panicked"
                /\ UNCHANGED <<env, mainPc, stdin, cfgVars, invVars, loopVars,
                               payState, sdVars>>
           ELSE /\ payment_hash' = h
                /\ invoice' = <<"lnbc", h>>
                /\ payState' = "AwaitingClaimable"
                /\ Goto("spawn")
                /\ UNCHANGED <<cfgVars, loopVars, sdVars>>

\* std::thread::spawn(move || { .. }) with the node handle and payment hash
SpawnListener ==
    /\ proc = "running" /\ mainPc = "spawn"
    /\ sdPc' = "read_line"
    /\ Goto("poll")
    /\ UNCHANGED <<cfgVars, invVars, loopVars, calls, payState, stateAtSignal>>

\* if let Some(event) = node.next_event()
Poll ==
    /\ proc = "running" /\ mainPc = "poll"
    /\ polls < MaxPolls
    /\ polls' = polls + 1
    /\ \/ \E e \in Events :
            /\ event' = e
            /\ drained' = drained + 1
            /\ Goto("dispatch")
       \/ /\ event' = NoEvent
          /\ drained' = drained
          /\ Goto("sleep")
    /\ UNCHANGED <<cfgVars, invVars, acked, calls, payState, sdVars>>

Dispatch_ClaimsOnMatch ==
    /\ proc = "running" /\ mainPc = "dispatch"
    /\ IF event.kind = "PaymentClaimable" /\ event.payment_hash = payment_hash
       THEN /\ payState' = "Held"
            /\ calls' = Append(calls, [op |-> "claim", res |-> "Ok",
                                       hash |-> payment_hash])
       ELSE UNCHANGED <<payState, calls>>
    /\ Goto("ack")
    /\ UNCHANGED <<cfgVars, invVars, loopVars, sdVars>>

Dispatch_NoHashCheck ==
    /\ proc = "running" /\ mainPc = "dispatch"
    /\ payState' = IF event.kind = "PaymentClaimable" THEN "Held" ELSE payState
    /\ Goto("ack")
    /\ UNCHANGED <<cfgVars, invVars, loopVars, calls, sdVars>>

\* match event { PaymentClaimable | ChannelPending | ChannelReady | _ }
Dispatch ==
    /\ proc = "running" /\ mainPc = "dispatch"
    /\ payState' = IF event.kind = "PaymentClaimable"
                      /\ event.payment_hash = payment_hash
                   THEN "Held"
                   ELSE payState
    /\ Goto("ack")
    /\ UNCHANGED <<cfgVars, invVars, loopVars, calls, sdVars>>

Ack_OnlyMatching ==
    /\ proc = "running" /\ mainPc = "ack"
    /\ acked' = IF event.kind = "PaymentClaimable"
                   /\ event.payment_hash = payment_hash
                THEN acked + 1
                ELSE acked
    /\ event' = NoEvent
    /\ Goto("sleep")
    /\ UNCHANGED <<cfgVars, invVars, polls, drained, calls, payState, sdVars>>

\* let _ = node.event_handled();
Ack ==
    /\ proc = "running" /\ mainPc = "ack"
    /\ acked' = acked + 1
    /\ event' = NoEvent
    /\ Goto("sleep")
    /\ UNCHANGED <<cfgVars, invVars, polls, drained, calls, payState, sdVars>>

\* thread::sleep(Duration::from_millis(100)); back to the top of the loop
Sleep ==
    /\ proc = "running" /\ mainPc = "sleep"
    /\ Goto("poll")
    /\ UNCHANGED <<cfgVars, invVars, loopVars, calls, payState, sdVars>>

\* ------------------------------------------------ shutdown listener thread
\* let _ = std::io::stdin().read_line(..) returns: the shutdown signal arrives
ReadLine ==
    /\ proc = "running" /\ sdPc = "read_line"
    /\ stdin
    /\ sdPc' = "fail"
    /\ stateAtSignal' = payState
    /\ UNCHANGED <<env, mainPc, proc, stdin, cfgVars, invVars, loopVars, calls,
                   payState>>

FailForHash_ExitOnErr ==
    /\ proc = "running" /\ sdPc = "fail"
    /\ \E res \in Results :
        /\ calls' = Append(calls, [op |-> "fail", res |-> res,
                                   hash |-> payment_hash])
        /\ payState' = IF res = "Ok" THEN "Failed" ELSE payState
        /\ sdPc' = IF res = "Ok" THEN "stop" ELSE "exit"
    /\ UNCHANGED <<env, mainPc, proc, stdin, cfgVars, invVars, loopVars,
                   stateAtSignal>>

FailForHash_OnlyIfHeld ==
    /\ proc = "running" /\ sdPc = "fail"
    /\ IF payState = "Held"
       THEN \E res \in Results :
              /\ calls' = Append(calls, [op |-> "fail", res |-> res,
                                         hash |-> payment_hash])
              /\ payState' = IF res = "Ok" THEN "Failed" ELSE payState
       ELSE UNCHANGED <<calls, payState>>
    /\ sdPc' = "stop"
    /\ UNCHANGED <<env, mainPc, proc, stdin, cfgVars, invVars, loopVars,
                   stateAtSignal>>

\* let _ = node_clone.bolt11_payment().fail_for_hash(payment_hash_clone);
FailForHash ==
    /\ proc = "running" /\ sdPc = "fail"
    /\ \E res \in Results :
        /\ calls' = Append(calls, [op |-> "fail", res |-> res,
                                   hash |-> payment_hash])
        /\ payState' = IF res = "Ok" THEN "Failed" ELSE payState
    /\ sdPc' = "stop"
    /\ UNCHANGED <<env, mainPc, proc, stdin, cfgVars, invVars, loopVars,
                   stateAtSignal>>

NodeStop_AbortOnErr ==
    /\ proc = "running" /\ sdPc = "stop"
    /\ \E res \in Results :
        /\ calls' = Append(calls, [op |-> "stop", res |-> res])
        /\ sdPc' = IF res = "Ok" THEN "exit" ELSE "aborted"
    /\ UNCHANGED <<env, mainPc, proc, stdin, cfgVars, invVars, loopVars,
                   payState, stateAtSignal>>

\* let _ = node_clone.stop();
NodeStop ==
    /\ proc = "running" /\ sdPc = "stop"
    /\ \E res \in Results :
        calls' = Append(calls, [op |-> "stop", res |-> res])
    /\ sdPc' = "exit"
    /\ UNCHANGED <<env, mainPc, proc, stdin, cfgVars, invVars, loopVars,
                   payState, stateAtSignal>>

\* std::process::exit(0): ends every thread of the process
ProcessExit ==
    /\ proc = "running" /\ sdPc = "exit"
    /\ proc' = "exited"
    /\ sdPc' = "done"
    /\ UNCHANGED <<env, mainPc, stdin, cfgVars, invVars, loopVars, calls,
                   payState, stateAtSignal>>

\* ------------------------------------------------------- specifications
MainNext ==
    \/ ReadEnv
    \/ ParseConfig
    \/ ParsePubkey
    \/ ConfigureBuilder
    \/ BuildNode
    \/ StartNode
    \/ InvoiceParams
    \/ RequestInvoice
    \/ SpawnListener
    \/ Poll
    \/ Dispatch
    \/ Ack
    \/ Sleep

ShutdownNext ==
    \/ ReadLine
    \/ FailForHash
    \/ NodeStop
    \/ ProcessExit

Next ==
    \/ OperatorEnter
    \/ MainNext
    \/ ShutdownNext

Spec == Init /\ [][Next]_vars

\* The listener thread is an OS thread of its own: read_line returns once a
\* line (or EOF) is available, and each of its three calls then returns (with
\* Ok or Err); nothing in it waits for the main thread.
FairSpec ==
    /\ Spec
    /\ WF_vars(ReadLine)
    /\ WF_vars(FailForHash)
    /\ WF_vars(NodeStop)
    /\ WF_vars(ProcessExit)

\* ------------------------------------------------------------- claims
Matching(e) == e.kind = "PaymentClaimable" /\ e.payment_hash = payment_hash
DispatchStep == mainPc = "dispatch" /\ mainPc' = "ack"
ShutdownOps == SelectSeq(calls, LAMBDA c : c.op \in {"fail", "stop"})

\* The listener's sequence as seen in the call log at each of its positions:
\* one fail_for_hash on the invoice's hash, then one stop, then exit.
FailThenStop ==
    /\ sdPc \in {"fail", "stop", "exit", "done"}
    /\ sdPc = "fail" => ShutdownOps = <<>>
    /\ sdPc = "stop" =>
          /\ Len(ShutdownOps) = 1
          /\ ShutdownOps[1].op = "fail"
          /\ ShutdownOps[1].hash = payment_hash
    /\ sdPc \in {"exit", "done"} =>
          /\ Len(ShutdownOps) = 2
          /\ ShutdownOps[1].op = "fail"
          /\ ShutdownOps[1].hash = payment_hash
          /\ ShutdownOps[2].op = "stop"
    /\ proc = "exited" <=> sdPc = "done"

\* C1: when the shutdown signal arrives while the payment is Held, the
\* listener issues exactly one fail_for_hash(payment_hash), before stop, and
\* stop exactly once, whatever fail_for_hash returns.
C1_HeldShutdownFailsThenStops ==
    stateAtSignal = "Held" => FailThenStop

C1_Witness ==
    /\ stateAtSignal = "Held"
    /\ proc = "exited"
    /\ Issued("fail") = 1 /\ Ops("fail")[1].res = "Err"
    /\ Issued("stop") = 1

\* C2 as stated: a shutdown signal arriving while no payment is outstanding
\* issues no fail call and goes directly to node stop.
C2_Original ==
    stateAtSignal \in {"Created", "AwaitingClaimable", "Failed"} =>
        Issued("fail") = 0

\* C2 amended: a shutdown signal arriving before any matching
\* PaymentClaimable was seen still issues exactly one fail_for_hash on the
\* invoice's hash (result ignored) and then node stop; the signal never
\* arrives in state Created or Failed.
C2_UnheldShutdownStillFails ==
    /\ stateAtSignal \notin {"Created", "Failed"}
    /\ stateAtSignal = "AwaitingClaimable" => FailThenStop

C2_Witness ==
    /\ stateAtSignal = "AwaitingClaimable"
    /\ payState /= "Held"
    /\ sdPc = "done"
    /\ Issued("fail") = 1 /\ Issued("stop") = 1

\* C3: dispatching a PaymentClaimable whose hash equals payment_hash moves the
\* payment to Held and issues no command; no run ever issues a claim.
C3_MatchingHoldsWithoutCommand ==
    /\ [](Issued("claim") = 0)
    /\ [][DispatchStep /\ Matching(event) =>
            payState' = "Held" /\ calls' = calls]_vars

C3_Witness ==
    /\ mainPc = "ack"
    /\ Matching(event)
    /\ payState = "Held"
    /\ Issued("fail") = 0

\* C4: dispatching any other event (a PaymentClaimable with another hash,
\* ChannelPending, ChannelReady, anything else) leaves the payment state
\* unchanged and issues no command.
C4_OtherEventsChangeNothing ==
    [][DispatchStep /\ ~Matching(event) =>
            payState' = payState /\ calls' = calls]_vars

C4_Witness ==
    /\ mainPc = "ack"
    /\ event.kind = "PaymentClaimable"
    /\ event.payment_hash /= payment_hash
    /\ payState = "AwaitingClaimable"

\* C5 as stated: every drained event is acknowledged exactly once in every
\* interleaving with the listener thread, so whenever the loop is between
\* iterations or the process has ended, acknowledgements equal drained events.
C5_Original ==
    (proc /= "running" \/ mainPc \in {"poll", "sleep"}) => acked = drained

\* C5 amended: an event is acknowledged at most once, only after its dispatch
\* branch has run and never when the poll returned no event; it is
\* acknowledged before the next poll unless the process ends first.
C5_AckAtMostOnceAfterDispatch ==
    /\ acked <= drained /\ drained <= polls
    /\ drained - acked = IF mainPc \in {"dispatch", "ack"} THEN 1 ELSE 0
    /\ event /= NoEvent <=> mainPc \in {"dispatch", "ack"}

C5_Witness ==
    /\ proc = "exited"
    /\ drained = 2 /\ acked = 1
    /\ mainPc = "ack"

\* C6: once the shutdown signal is raised for the listener (a line is on
\* stdin and the listener exists), the sequence runs at most once, in the
\* order fail_for_hash, stop, exit, and the process eventually exits whatever
\* the two calls return.
C6_ShutdownCompletes ==
    /\ [](/\ Issued("fail") <= 1 /\ Issued("stop") <= 1
          /\ \A i \in DOMAIN ShutdownOps :
                ShutdownOps[i].op = <<"fail", "stop">>[i]
          /\ proc = "exited" => Len(ShutdownOps) = 2)
    /\ ((stdin /\ sdPc /= "unspawned") ~> proc = "exited")

C6_Witness ==
    /\ proc = "exited"
    /\ Ops("fail")[1].res = "Err"
    /\ Ops("stop")[1].res = "Err"

\* C7: the invoice request is issued at most once; after a rejection the run
\* has ended with nothing polled or acknowledged, no listener and no fail or
\* claim; hash and invoice are set together or not at all.
C7_InvoiceRejectionIsFatal ==
    /\ Issued("invoice") <= 1
    /\ (\E i \in DOMAIN calls : calls[i].op = "invoice" /\ calls[i].res = "Err") =>
          /\ proc = "panicked" /\ mainPc = "invoice"
          /\ polls = 0 /\ drained = 0 /\ acked = 0
          /\ sdPc = "unspawned"
          /\ Issued("fail") = 0 /\ Issued("claim") = 0 /\ Issued("stop") = 0
    /\ payment_hash = NoHash <=> invoice = <<>>
    /\ (\E i \in DOMAIN calls : calls[i].op = "invoice" /\ calls[i].res = "Ok") =>
          /\ payment_hash = Ops("invoice")[1].hash
          /\ payment_hash \in Hashes
          /\ invoice /= <<>>

C7_Witness ==
    /\ Issued("invoice") = 1
    /\ Ops("invoice")[1].res = "Err"
    /\ proc = "panicked"
    /\ stdin

\* C8: a missing LSP_PUBKEY or LSP_ADDRESS, or a malformed one, stops the run
\* before the node is built: no start, no invoice request, no polling.
MissingMandatory == env.LSP_PUBKEY = Absent \/ env.LSP_ADDRESS = Absent
MalformedPubkey == ~PublicKeyFromStr(env.LSP_PUBKEY)
MalformedAddress == ~AddressParse(env.LSP_ADDRESS)

C8_BadMandatoryValuesAreFatal ==
    /\ MissingMandatory => mainPc = "read_env"
    /\ MalformedPubkey => mainPc \in {"read_env", "parse_cfg", "parse_pubkey"}
    /\ MalformedAddress =>
          mainPc \in {"read_env", "parse_cfg", "parse_pubkey", "configure"}
    /\ (MissingMandatory \/ MalformedPubkey \/ MalformedAddress) =>
          /\ calls = <<>>
          /\ polls = 0
          /\ sdPc = "unspawned"
          /\ proc /= "exited"

C8_Witness ==
    /\ ~MissingMandatory /\ ~MalformedPubkey /\ MalformedAddress
    /\ proc = "panicked"
    /\ mainPc = "configure"

\* C9: an unknown NETWORK selects Bitcoin and an unknown LOG_LEVEL selects
\* Debug without a panic; with no usable MIN_FINAL_CLTV_EXPIRY_DELTA the
\* invoice request then carries the Bitcoin CLTV delta, 80.
UnknownNetwork == env.NETWORK /= Absent /\ ~KnownNetwork(env.NETWORK)
UnknownLogLevel == env.LOG_LEVEL /= Absent /\ ~KnownLogLevel(env.LOG_LEVEL)
NoCltvOverride ==
    \/ env.MIN_FINAL_CLTV_EXPIRY_DELTA = Absent
    \/ ParseUnsigned(env.MIN_FINAL_CLTV_EXPIRY_DELTA, U16Max) = -1

C9_UnknownValuesFallBack ==
    /\ (UnknownNetwork /\ network /= "unset") => network = "Bitcoin"
    /\ (UnknownLogLevel /\ log_level /= "unset") => log_level = "Debug"
    /\ (UnknownNetwork \/ UnknownLogLevel) =>
          ~(proc = "panicked" /\ mainPc = "parse_cfg")
    /\ (UnknownNetwork /\ NoCltvOverride) =>
          \A i \in DOMAIN calls :
              calls[i].op = "invoice" => calls[i].cltv = 80

C9_Witness ==
    /\ UnknownNetwork /\ UnknownLogLevel
    /\ env.MIN_FINAL_CLTV_EXPIRY_DELTA = Absent
    /\ Issued("invoice") = 1
    /\ Ops("invoice")[1].res = "Ok"
    /\ Ops("invoice")[1].cltv = 80

\* C10: the listener exists only once the invoice request has succeeded: a
\* fail_for_hash is issued only by the listener, after the invoice, with the
\* hash the invoice request returned, and a signal raised earlier causes no
\* fail and no stop while there is no invoice.
C10_FailOnlyAfterInvoice ==
    /\ \A i \in DOMAIN calls :
          calls[i].op = "fail" =>
              /\ calls[i].hash = payment_hash
              /\ \E j \in 1..(i - 1) :
                    /\ calls[j].op = "invoice" /\ calls[j].res = "Ok"
                    /\ calls[j].hash = calls[i].hash
    /\ Issued("fail") = IF sdPc \in {"stop", "exit", "done"} THEN 1 ELSE 0
    /\ payment_hash = NoHash =>
          /\ sdPc = "unspawned"
          /\ Issued("fail") = 0 /\ Issued("stop") = 0
          /\ proc /= "exited"

C10_Witness ==
    /\ stdin
    /\ proc = "running"
    /\ mainPc = "invoice"
    /\ payment_hash = NoHash
    /\ Issued("start") = 1

====
